---------------------------- MODULE Spec2Model ----------------------------
(***************************************************************************)
(* Model of stages/dataset/torchvision_dataset.py: the PreloadedDataset    *)
(* cache, the TorchVisionDataset stage (construction, getters, prepare)    *)
(* and its pass-through run loop over the pipeline's queues.               *)
(***************************************************************************)
EXTENDS Integers, Sequences, FiniteSets, TLC

VARIABLES
    cfg,          \* stage_config["config"]: each key absent ({}) or present ({v})
    disk,         \* split -> number of (sample, label) pairs the provider stores
    downloaded,   \* what os.path.exists(data/<dataset_name>) answers
    state,        \* life cycle of the stage
    preload,      \* self.preload
    datasets,     \* self.datasets: insertion-ordered dict, <<key, object id>> pairs
    batch_size,   \* self.batch_size
    heap,         \* dataset objects by identity (index = object id)
    io,           \* I/O performed so far, in order
    ret,          \* the last call and what it returned or raised
    disable_logs, \* self.disable_logs
    inq,          \* input queues: records produced and not yet fetched
    outq,         \* output queues: records pushed
    fed,          \* per input queue, every record its producer has put
    inputs,       \* run(): the records of the current get_next_from_queues()
    pc,           \* run(): position in the loop
    trace,        \* run(): its queue operations and observability events, in order
    prepares      \* number of prepare() calls made

vars == <<cfg, disk, downloaded, state, preload, datasets, batch_size, heap,
          io, ret, disable_logs, inq, outq, fed, inputs, pc, trace, prepares>>

regVars == <<cfg, disk, downloaded, preload, datasets, batch_size, heap, io>>
runVars == <<disable_logs, inq, outq, fed, inputs, pc, trace>>

---------------------------------------------------------------------------
(* Bounds *)

MaxLen == 2        \* longest stored collection
MaxBatch == 2      \* largest configured batch_size
MaxFeed == 3       \* most records a producer puts on one input queue
MaxQueues == 2     \* most input queues
MaxPrepares == 2   \* most prepare() calls on one stage
MaxObjs == 3       \* most dataset objects when caches are built directly

---------------------------------------------------------------------------
(* Values *)

\* A dict key that is absent is {}, one that is present with value v is {v}.
Absent == {}
Some(v) == {v}
\* dict.get(key, default)
Get(opt, default) == IF opt = {} THEN default ELSE CHOOSE v \in opt : TRUE

\* batch_size values: an integer or something that is not a number.
IntV(n) == [isint |-> TRUE, int |-> n]
NotInt == [isint |-> FALSE, int |-> 0]
IsInt(b) == b.isint

Splits == {"train", "val"}

\* A transform is named; applying it is kept symbolic, so that T(x), x and
\* S(T(x)) are three different values.
Transforms == {"ToTensor", "W1.transforms"}
Apply(t, x) == <<t, x>>

\* The i-th pair (0-based) the provider stores for a split: samples are
\* pairwise distinct, labels alternate.
Item(s, i) == <<<<"raw", s, i>>, i % 2>>
Stored(s, n) == [j \in 1..n |-> Item(s, j - 1)]

NoRet == [op |-> "none"]

---------------------------------------------------------------------------
(* Dataset objects *)

\* A provider's collection (a torchvision VisionDataset): its transform
\* attribute and the pairs it reads from storage.
ProviderObj(s, n, t) ==
    [kind |-> "provider", transform |-> t, data |-> Stored(s, n)]

\* len(obj)
ObjLen(h, o) == Len(h[o].data)

\* Provider __getitem__: the stored pair, with the attached transform
\* applied to the sample unless the transform is None.
ProviderGetitem(h, o, index) ==
    IF index < 0 \/ index >= Len(h[o].data)
    THEN [exc |-> "IndexError", val |-> <<>>]
    ELSE LET p == h[o].data[index + 1]
         IN  IF h[o].transform = "None"
             THEN [exc |-> "None", val |-> p]
             ELSE [exc |-> "None", val |-> <<Apply(h[o].transform, p[1]), p[2]>>]

\* PreloadedDataset.__getitem__ without the transform
PreloadedGetitemRaw(h, o, index) ==
    LET n == Len(h[o].data)
    IN  IF index >= n \/ index < -n
        THEN [exc |-> "IndexError", val |-> <<>>]
        ELSE [exc |-> "None", val |-> h[o].data[(IF index < 0 THEN index + n ELSE index) + 1]]

\* PreloadedDataset.__getitem__ that wraps an index past the end around
PreloadedGetitemWrap(h, o, index) ==
    LET n == Len(h[o].data)
    IN  IF n = 0 \/ index < -n
        THEN [exc |-> "IndexError", val |-> <<>>]
        ELSE LET p == h[o].data[(index % n) + 1]
             IN  IF h[o].transform = "None"
                 THEN [exc |-> "TypeError", val |-> <<>>]
                 ELSE [exc |-> "None", val |-> <<Apply(h[o].transform, p[1]), p[2]>>]

\* PreloadedDataset.__getitem__: x, y = self.data[index] with Python's list
\* indexing (index -k is the k-th pair from the end), then self.transform(x).
PreloadedGetitem(h, o, index) ==
    LET n == Len(h[o].data)
    IN  IF index >= n \/ index < -n
        THEN [exc |-> "IndexError", val |-> <<>>]
        ELSE LET p == h[o].data[(IF index < 0 THEN index + n ELSE index) + 1]
             IN  IF h[o].transform = "None"
                 THEN [exc |-> "TypeError", val |-> <<>>]
                 ELSE [exc |-> "None", val |-> <<Apply(h[o].transform, p[1]), p[2]>>]

\* obj[index]
Getitem(h, o, index) ==
    IF h[o].kind = "provider"
    THEN ProviderGetitem(h, o, index)
    ELSE PreloadedGetitem(h, o, index)

\* PreloadedDataset.__init__ that stops one short of the end
PreloadedInitShort(h, src, t) ==
    LET n == ObjLen(h, src)
        m == IF n > 0 THEN n - 1 ELSE 0
        RECURSIVE fill(_)
        fill(idx) ==
            IF idx >= m THEN [exc |-> "None", data |-> <<>>, reads |-> <<>>]
            ELSE LET g == Getitem(h, src, idx)
                 IN  IF g.exc # "None"
                     THEN [exc |-> g.exc, data |-> <<>>, reads |-> <<idx>>]
                     ELSE LET rest == fill(idx + 1)
                          IN  [exc |-> rest.exc, data |-> <<g.val>> \o rest.data,
                               reads |-> <<idx>> \o rest.reads]
        r == fill(0)
    IN  [exc |-> r.exc, reads |-> r.reads,
         obj |-> [kind |-> "preloaded", transform |-> t, data |-> r.data]]

\* PreloadedDataset.__init__ that stores the transformed sample
PreloadedInitEager(h, src, t) ==
    LET n == ObjLen(h, src)
        RECURSIVE fill(_)
        fill(idx) ==
            IF idx >= n THEN [exc |-> "None", data |-> <<>>, reads |-> <<>>]
            ELSE LET g == Getitem(h, src, idx)
                 IN  IF g.exc # "None"
                     THEN [exc |-> g.exc, data |-> <<>>, reads |-> <<idx>>]
                     ELSE LET rest == fill(idx + 1)
                              kept == IF t = "None" THEN g.val
                                      ELSE <<Apply(t, g.val[1]), g.val[2]>>
                          IN  [exc |-> rest.exc, data |-> <<kept>> \o rest.data,
                               reads |-> <<idx>> \o rest.reads]
        r == fill(0)
    IN  [exc |-> r.exc, reads |-> r.reads,
         obj |-> [kind |-> "preloaded", transform |-> t, data |-> r.data]]

\* PreloadedDataset.__init__(dataset, transform): appends dataset[idx] for
\* idx in range(len(dataset)); an exception of dataset[idx] propagates.
PreloadedInit(h, src, t) ==
    LET n == ObjLen(h, src)
        RECURSIVE fill(_)
        fill(idx) ==
            IF idx >= n THEN [exc |-> "None", data |-> <<>>, reads |-> <<>>]
            ELSE LET g == Getitem(h, src, idx)
                 IN  IF g.exc # "None"
                     THEN [exc |-> g.exc, data |-> <<>>, reads |-> <<idx>>]
                     ELSE LET rest == fill(idx + 1)
                          IN  [exc |-> rest.exc, data |-> <<g.val>> \o rest.data,
                               reads |-> <<idx>> \o rest.reads]
        r == fill(0)
    IN  [exc |-> r.exc, reads |-> r.reads,
         obj |-> [kind |-> "preloaded", transform |-> t, data |-> r.data]]

---------------------------------------------------------------------------
(* The insertion-ordered dict self.datasets *)

DictKeys(d) == [i \in 1..Len(d) |-> d[i][1]]
DictHas(d, k) == \E i \in 1..Len(d) : d[i][1] = k
DictGet(d, k) == d[CHOOSE i \in 1..Len(d) : d[i][1] = k][2]
\* d[k] = v: an existing key keeps its place
DictSet(d, k, v) ==
    IF DictHas(d, k)
    THEN [i \in 1..Len(d) |-> IF d[i][1] = k THEN <<k, v>> ELSE d[i]]
    ELSE Append(d, <<k, v>>)

---------------------------------------------------------------------------
(* TorchVisionDataset.__init__, statement by statement.  o is the object   *)
(* under construction with the exception raised so far and the I/O done.   *)

\* torchvision.datasets.__dict__ and the weights registry
Providers == {"Example"}
Weights == {"W1"}

NewStage(h) ==
    [exc |-> "None", preload |-> FALSE, download |-> FALSE, datasets |-> <<>>,
     batch_size |-> IntV(1), heap |-> h, io |-> <<>>]

\* self.preload = stage_config.get("preload", False)
StepPreload(o, c) ==
    IF o.exc # "None" THEN o
    ELSE [o EXCEPT !.preload = Get(c.preload, FALSE)]

\* dataset_name is None -> raise ValueError("Missing dataset name.")
StepName(o, c) ==
    IF o.exc # "None" THEN o
    ELSE IF c.dataset_name = Absent THEN [o EXCEPT !.exc = "ValueError"] ELSE o

\* self.dataset is None -> raise Exception("Could not find dataset ...")
StepLookup(o, c) ==
    IF o.exc # "None" THEN o
    ELSE IF Get(c.dataset_name, "None") \notin Providers
         THEN [o EXCEPT !.exc = "Exception"] ELSE o

\* dataset_downloaded = os.path.exists(os.path.join(os.getcwd(), "data", name))
StepProbe(o, c, dl) ==
    IF o.exc # "None" THEN o
    ELSE [o EXCEPT !.io = Append(@, [op |-> "exists", arg |-> Get(c.dataset_name, "None")]),
                   !.download = ~dl]

\* {x: self.dataset(root, split=x, download, transform) for x in split}
RECURSIVE Instantiate(_, _, _, _)
Instantiate(o, split, dsk, t) ==
    IF split = <<>> THEN o
    ELSE LET x == Head(split)
             made == [o EXCEPT
                        !.io = Append(@, [op |-> IF o.download THEN "download" ELSE "load",
                                          arg |-> x]),
                        !.heap = Append(@, ProviderObj(x, dsk[x], t)),
                        !.datasets = DictSet(@, x, Len(o.heap) + 1)]
         IN  Instantiate(made, Tail(split), dsk, t)

\* the weights branch: the transform is ToTensor without weights, else the
\* preprocessing of get_weight(weights_name), which raises for an unknown name
StepDatasets(o, c, dsk) ==
    IF o.exc # "None" THEN o
    ELSE LET split == Get(c.split, <<"val">>)
         IN  IF c.weights = Absent
             THEN Instantiate(o, split, dsk, "ToTensor")
             ELSE LET w == Get(c.weights, "None")
                      looked == [o EXCEPT !.io = Append(@, [op |-> "get_weight", arg |-> w])]
                  IN  IF w \notin Weights
                      THEN [looked EXCEPT !.exc = "ValueError"]
                      ELSE Instantiate(looked, split, dsk, "W1.transforms")

\* self.batch_size = stage_config.get("batch_size", 1)
StepBatch(o, c) ==
    IF o.exc # "None" THEN o
    ELSE [o EXCEPT !.batch_size = Get(c.batch_size, IntV(1))]

\* __init__ with the existence probe moved ahead of the name check
InitProbeFirst(c, dsk, dl, h) ==
    StepBatch(StepDatasets(StepLookup(StepName(StepProbe(StepPreload(
        NewStage(h), c), c, dl), c), c), c, dsk), c)

TorchVisionDatasetInit(c, dsk, dl, h) ==
    StepBatch(StepDatasets(StepProbe(StepLookup(StepName(StepPreload(
        NewStage(h), c), c), c), c, dl), c, dsk), c)

---------------------------------------------------------------------------
(* get_num_batches *)

\* a // b rounding up
CeilDiv(a, b) == IF b > 0 THEN (a + b - 1) \div b ELSE (0 - a) \div (0 - b)

\* Python's a // b on integers, b # 0: the floor of the quotient
FloorDiv(a, b) == IF b > 0 THEN a \div b ELSE (0 - a) \div (0 - b)

\* len(v) // self.batch_size, with what Python raises
PyLenDiv(n, bs) ==
    IF ~IsInt(bs) THEN [exc |-> "TypeError", val |-> 0]
    ELSE IF bs.int = 0 THEN [exc |-> "ZeroDivisionError", val |-> 0]
    ELSE [exc |-> "None", val |-> FloorDiv(n, bs.int)]

\* {k: len(v) // self.batch_size for (k, v) in self.datasets.items()}
NumBatches(d, h, bs) ==
    LET q == [i \in 1..Len(d) |-> PyLenDiv(ObjLen(h, d[i][2]), bs)]
    IN  IF \E i \in 1..Len(d) : q[i].exc # "None"
        THEN [exc |-> q[1].exc, val |-> <<>>]
        ELSE [exc |-> "None", val |-> [i \in 1..Len(d) |-> <<d[i][1], q[i].val>>]]

---------------------------------------------------------------------------
(* prepare *)

\* The loop of prepare() over the keys still to do; r carries self.datasets,
\* the heap and the exception raised.
RECURSIVE PreloadLoop(_, _)
PreloadLoop(r, todo) ==
    IF todo = <<>> \/ r.exc # "None" THEN r
    ELSE LET key == Head(todo)
             old == DictGet(r.datasets, key)
             transform == r.heap[old].transform
             detached == [r.heap EXCEPT ![old].transform = "None"]
             made == PreloadedInit(detached, old, transform)
         IN  IF made.exc # "None"
             THEN [r EXCEPT !.heap = detached, !.exc = made.exc]
             ELSE PreloadLoop(
                    [r EXCEPT !.heap = Append(detached, made.obj),
                              !.datasets = DictSet(@, key, Len(detached) + 1)],
                    Tail(todo))

\* prepare() that preloads whatever self.preload says
PrepareAlways(p, d, h) ==
    PreloadLoop([exc |-> "None", datasets |-> d, heap |-> h], DictKeys(d))

\* TorchVisionDataset.prepare
PrepareResult(p, d, h) ==
    IF ~p THEN [exc |-> "None", datasets |-> d, heap |-> h]
    ELSE PreloadLoop([exc |-> "None", datasets |-> d, heap |-> h], DictKeys(d))

---------------------------------------------------------------------------
(* The stage's operations *)

Built == {"Created", "Prepared", "Running", "Terminated"}
Indices == (0 - MaxLen - 1)..(MaxLen + 1)

\* TorchVisionDataset(stage_config, parent_name)
Construct ==
    /\ state = "Unbuilt"
    /\ LET o == TorchVisionDatasetInit(cfg, disk, downloaded, heap)
       IN  /\ io' = io \o o.io
           /\ ret' = [op |-> "__init__", exc |-> o.exc]
           /\ IF o.exc = "None"
              THEN /\ state' = "Created"
                   /\ preload' = o.preload
                   /\ datasets' = o.datasets
                   /\ batch_size' = o.batch_size
                   /\ heap' = o.heap
              ELSE /\ state' = "Failed"
                   /\ UNCHANGED <<preload, datasets, batch_size, heap>>
    /\ UNCHANGED <<cfg, disk, downloaded, prepares, runVars>>

\* get_datasets() that preloads the raw collections on first use
GetDatasetsPreloading ==
    /\ state \in Built
    /\ LET raw == \A j \in 1..Len(datasets) : heap[datasets[j][2]].kind = "provider"
           r == IF raw
                THEN PreloadLoop([exc |-> "None", datasets |-> datasets, heap |-> heap],
                                 DictKeys(datasets))
                ELSE [exc |-> "None", datasets |-> datasets, heap |-> heap]
       IN  /\ datasets' = r.datasets
           /\ heap' = r.heap
           /\ ret' = [op |-> "get_datasets", exc |-> "None", val |-> r.datasets]
    /\ UNCHANGED <<state, cfg, disk, downloaded, preload, batch_size, io, prepares, runVars>>

\* get_datasets()
GetDatasets ==
    /\ state \in Built
    /\ ret' = [op |-> "get_datasets", exc |-> "None", val |-> datasets]
    /\ UNCHANGED <<state, regVars, prepares, runVars>>

\* get_num_batches()
GetNumBatches ==
    /\ state \in Built
    /\ LET r == NumBatches(datasets, heap, batch_size)
       IN  ret' = [op |-> "get_num_batches", exc |-> r.exc, val |-> r.val]
    /\ UNCHANGED <<state, regVars, prepares, runVars>>

\* prepare()
Prepare ==
    /\ state \in {"Created", "Prepared"}
    /\ prepares < MaxPrepares
    /\ LET r == PrepareResult(preload, datasets, heap)
       IN  /\ datasets' = r.datasets
           /\ heap' = r.heap
           /\ ret' = [op |-> "prepare", exc |-> r.exc]
           /\ state' = IF r.exc = "None" THEN "Prepared" ELSE state
    /\ prepares' = prepares + 1
    /\ UNCHANGED <<cfg, disk, downloaded, preload, batch_size, io, runVars>>

\* obj[index] on any dataset object someone holds
GetItem ==
    /\ \E o \in 1..Len(heap), index \in Indices :
          LET r == Getitem(heap, o, index)
          IN  ret' = [op |-> "getitem", obj |-> o, index |-> index,
                      exc |-> r.exc, val |-> r.val]
    /\ UNCHANGED <<state, regVars, prepares, runVars>>

\* len(obj)
GetLen ==
    /\ \E o \in 1..Len(heap) :
          ret' = [op |-> "len", obj |-> o, exc |-> "None", val |-> ObjLen(heap, o)]
    /\ UNCHANGED <<state, regVars, prepares, runVars>>

\* PreloadedDataset(dataset, transform) built directly on a dataset object
NewPreloaded ==
    /\ Len(heap) < MaxObjs
    /\ \E src \in 1..Len(heap), t \in Transforms \cup {"None"} :
          LET r == PreloadedInit(heap, src, t)
          IN  /\ heap' = IF r.exc = "None" THEN Append(heap, r.obj) ELSE heap
              /\ ret' = [op |-> "PreloadedDataset", src |-> src, transform |-> t,
                         exc |-> r.exc, obj |-> Len(heap) + 1, reads |-> r.reads]
    /\ UNCHANGED <<cfg, disk, downloaded, state, preload, datasets, batch_size,
                   io, prepares, runVars>>

\* dataset.transform = None, as a holder of a dataset object may do
DetachTransform ==
    /\ \E o \in 1..Len(heap) :
          /\ heap[o].transform # "None"
          /\ heap' = [heap EXCEPT ![o].transform = "None"]
          /\ ret' = [op |-> "detach", obj |-> o, exc |-> "None"]
    /\ UNCHANGED <<cfg, disk, downloaded, state, preload, datasets, batch_size,
                   io, prepares, runVars>>

---------------------------------------------------------------------------
(* The registry: every configuration, construction, getters, prepare *)

Configs ==
    [dataset_name : {Absent, Some("Example"), Some("Unknown")},
     split : {Absent, Some(<<"val">>), Some(<<"train", "val">>), Some(<<"val", "val">>)},
     weights : {Absent, Some("W1"), Some("Bogus")},
     preload : {Absent, Some(TRUE), Some(FALSE)},
     batch_size : {Absent, Some(NotInt)} \cup {Some(IntV(n)) : n \in (0 - 1)..MaxBatch}]

NoRun ==
    /\ disable_logs = FALSE
    /\ inq = <<>>
    /\ outq = <<>>
    /\ fed = <<>>
    /\ inputs = <<>>
    /\ pc = "idle"
    /\ trace = <<>>

Unbuilt ==
    /\ state = "Unbuilt"
    /\ preload = FALSE
    /\ datasets = <<>>
    /\ batch_size = IntV(1)
    /\ heap = <<>>
    /\ io = <<>>
    /\ ret = NoRet
    /\ prepares = 0

Init ==
    /\ cfg \in Configs
    /\ disk \in [Splits -> 0..MaxLen]
    /\ downloaded \in BOOLEAN
    /\ Unbuilt
    /\ NoRun

Next ==
    \/ Construct
    \/ GetDatasets
    \/ GetNumBatches
    \/ Prepare
    \/ GetItem
    \/ GetLen

Spec == Init /\ [][Next]_vars

---------------------------------------------------------------------------
(* PreloadedDataset on its own: any source, any transform *)

CacheInit ==
    /\ cfg = [dataset_name |-> Absent, split |-> Absent, weights |-> Absent,
              preload |-> Absent, batch_size |-> Absent]
    /\ disk \in {d \in [Splits -> 0..MaxLen] : d["train"] = 0}
    /\ downloaded = TRUE
    /\ state = "Unbuilt"
    /\ preload = FALSE
    /\ datasets = <<>>
    /\ batch_size = IntV(1)
    /\ \E t \in Transforms \cup {"None"} :
          heap = <<ProviderObj("val", disk["val"], t)>>
    /\ io = <<>>
    /\ ret = NoRet
    /\ prepares = 0
    /\ NoRun

CacheNext ==
    \/ NewPreloaded
    \/ GetItem
    \/ GetLen
    \/ DetachTransform

CacheSpec == CacheInit /\ [][CacheNext]_vars

---------------------------------------------------------------------------
(* Queue records and the Stage helpers run() calls *)

Sentinel == [src |-> 0, seq |-> 0]
\* the n-th data record put on input queue q
Data(q, n) == [src |-> q, seq |-> n]
NoRec == [src |-> 0 - 1, seq |-> 0]
Ev(e, r) == [ev |-> e, rec |-> r]
Last(s) == s[Len(s)]

\* Stage.get_next_from_queues: one record from every input queue
GetNextFromQueues(q) == [i \in 1..Len(q) |-> Head(q[i])]

\* Stage.is_done: some fetched record is the termination sentinel
IsDone(in) == \E i \in 1..Len(in) : in[i] = Sentinel

\* Stage.push_to_output: the record goes to every output queue
PushToOutput(out, r) == [o \in 1..Len(out) |-> Append(out[o], r)]

\* list(inputs.values())[-1]
LastValue(in) == in[Len(in)]

\* list(inputs.values())[0]
FirstValue(in) == in[1]

\* the body of run()'s loop that breaks without forwarding
RunBodyNoFinalPush(in, out, dl) ==
    IF IsDone(in)
    THEN [out |-> out, events |-> <<>>, stop |-> TRUE]
    ELSE [out |-> PushToOutput(out, FirstValue(in)),
          events |-> (IF dl THEN <<>> ELSE <<Ev("start", NoRec)>>)
                     \o <<Ev("push", FirstValue(in))>>
                     \o (IF dl THEN <<>> ELSE <<Ev("end", NoRec)>>),
          stop |-> FALSE]

\* the body of run()'s loop without the break
RunBodyNoStop(in, out, dl) ==
    IF IsDone(in)
    THEN [out |-> PushToOutput(out, FirstValue(in)),
          events |-> <<Ev("push", FirstValue(in))>>,
          stop |-> FALSE]
    ELSE [out |-> PushToOutput(out, FirstValue(in)),
          events |-> (IF dl THEN <<>> ELSE <<Ev("start", NoRec)>>)
                     \o <<Ev("push", FirstValue(in))>>
                     \o (IF dl THEN <<>> ELSE <<Ev("end", NoRec)>>),
          stop |-> FALSE]

\* the body of run()'s loop forwarding the record of every input queue
RunBodyPushesAll(in, out, dl) ==
    LET RECURSIVE pushAll(_, _)
        pushAll(o, i) == IF i > Len(in) THEN o ELSE pushAll(PushToOutput(o, in[i]), i + 1)
    IN  IF IsDone(in)
        THEN [out |-> PushToOutput(out, FirstValue(in)),
              events |-> <<Ev("push", FirstValue(in))>>,
              stop |-> TRUE]
        ELSE [out |-> pushAll(out, 1),
              events |-> (IF dl THEN <<>> ELSE <<Ev("start", NoRec)>>)
                         \o [i \in 1..Len(in) |-> Ev("push", in[i])]
                         \o (IF dl THEN <<>> ELSE <<Ev("end", NoRec)>>),
              stop |-> FALSE]

\* the body of run()'s loop that breaks after every push
RunBodyStopsAlways(in, out, dl) ==
    IF IsDone(in)
    THEN [out |-> PushToOutput(out, FirstValue(in)),
          events |-> <<Ev("push", FirstValue(in))>>,
          stop |-> TRUE]
    ELSE [out |-> PushToOutput(out, FirstValue(in)),
          events |-> (IF dl THEN <<>> ELSE <<Ev("start", NoRec)>>)
                     \o <<Ev("push", FirstValue(in))>>
                     \o (IF dl THEN <<>> ELSE <<Ev("end", NoRec)>>),
          stop |-> TRUE]

\* the body of run()'s loop after the fetch: what is pushed, which events
\* are emitted, whether the loop breaks
RunBody(in, out, dl) ==
    IF IsDone(in)
    THEN [out |-> PushToOutput(out, FirstValue(in)),
          events |-> <<Ev("push", FirstValue(in))>>,
          stop |-> TRUE]
    ELSE [out |-> PushToOutput(out, FirstValue(in)),
          events |-> (IF dl THEN <<>> ELSE <<Ev("start", NoRec)>>)
                     \o <<Ev("push", FirstValue(in))>>
                     \o (IF dl THEN <<>> ELSE <<Ev("end", NoRec)>>),
          stop |-> FALSE]

---------------------------------------------------------------------------
(* The run loop and the queue fabric around it *)

\* the upstream producer of input queue q: data records, then one sentinel
Produce ==
    /\ state \in {"Prepared", "Running", "Terminated"}
    /\ \E q \in 1..Len(inq) :
          /\ Len(fed[q]) < MaxFeed
          /\ IF fed[q] = <<>> THEN TRUE ELSE Last(fed[q]) # Sentinel
          /\ \E r \in {Data(q, Len(fed[q]) + 1), Sentinel} :
                /\ inq' = [inq EXCEPT ![q] = Append(@, r)]
                /\ fed' = [fed EXCEPT ![q] = Append(@, r)]
    /\ UNCHANGED <<state, regVars, ret, prepares, disable_logs, outq, inputs, pc, trace>>

\* the pipeline starts run() on a prepared stage
StartRun ==
    /\ state = "Prepared"
    /\ state' = "Running"
    /\ pc' = "fetch"
    /\ UNCHANGED <<regVars, ret, prepares, disable_logs, inq, outq, fed, inputs, trace>>

\* inputs = self.get_next_from_queues(): blocks until every queue has a record
RunFetch ==
    /\ state = "Running"
    /\ pc = "fetch"
    /\ \A q \in 1..Len(inq) : inq[q] # <<>>
    /\ inputs' = GetNextFromQueues(inq)
    /\ inq' = [q \in 1..Len(inq) |-> Tail(inq[q])]
    /\ trace' = Append(trace, Ev("get", NoRec))
    /\ pc' = "forward"
    /\ UNCHANGED <<state, regVars, ret, prepares, disable_logs, outq, fed>>

\* the rest of the iteration, dropping the datasets when the stream ends
RunForwardReleasing ==
    /\ state = "Running"
    /\ pc = "forward"
    /\ LET r == RunBody(inputs, outq, disable_logs)
       IN  /\ outq' = r.out
           /\ trace' = trace \o r.events
           /\ pc' = IF r.stop THEN "done" ELSE "fetch"
           /\ state' = IF r.stop THEN "Terminated" ELSE "Running"
           /\ datasets' = IF r.stop THEN <<>> ELSE datasets
    /\ UNCHANGED <<cfg, disk, downloaded, preload, batch_size, heap, io, ret,
                   prepares, disable_logs, inq, fed, inputs>>

\* the rest of the iteration: is_done, the log events, push_to_output, break
RunForward ==
    /\ state = "Running"
    /\ pc = "forward"
    /\ LET r == RunBody(inputs, outq, disable_logs)
       IN  /\ outq' = r.out
           /\ trace' = trace \o r.events
           /\ pc' = IF r.stop THEN "done" ELSE "fetch"
           /\ state' = IF r.stop THEN "Terminated" ELSE "Running"
    /\ UNCHANGED <<regVars, ret, prepares, disable_logs, inq, fed, inputs>>

RunConfigs ==
    [dataset_name : {Some("Example")},
     split : {Some(<<"val">>)},
     weights : {Absent},
     preload : {Some(TRUE), Some(FALSE)},
     batch_size : {Absent}]

RunInit ==
    /\ cfg \in RunConfigs
    /\ disk = [s \in Splits |-> IF s = "val" THEN 1 ELSE 0]
    /\ downloaded = TRUE
    /\ Unbuilt
    /\ disable_logs \in BOOLEAN
    /\ \E n \in 1..MaxQueues : inq = [q \in 1..n |-> <<>>] /\ fed = inq
    /\ \E m \in {1, 2} : outq = [o \in 1..m |-> <<>>]
    /\ inputs = <<>>
    /\ pc = "idle"
    /\ trace = <<>>

RunNext ==
    \/ Construct
    \/ Prepare
    \/ GetDatasets
    \/ GetNumBatches
    \/ StartRun
    \/ Produce
    \/ RunFetch
    \/ RunForward

RunSpec == RunInit /\ [][RunNext]_vars

\* run() is a loop of one thread: a step it can take, it takes
FairRunSpec == RunSpec /\ WF_vars(RunFetch) /\ WF_vars(RunForward)

---------------------------------------------------------------------------
(* Claims about run() *)

Consumed(q) == Len(fed[q]) - Len(inq[q])
InSeq(r, s) == \E i \in 1..Len(s) : s[i] = r
SentinelFed(q) == IF fed[q] = <<>> THEN FALSE ELSE Last(fed[q]) = Sentinel

\* C1: with a single input queue that is fed data records and then the
\* sentinel, run() ends Terminated with every output queue holding exactly
\* the records fed, in the order fed, the sentinel last; and once the
\* sentinel has been fed to a running stage, that end is reached.
C1_PassThrough ==
    /\ [](state = "Terminated" /\ Len(inq) = 1 => \A o \in 1..Len(outq) : outq[o] = fed[1])
    /\ ((state = "Running" /\ Len(inq) = 1 /\ SentinelFed(1))
          ~> (state = "Terminated" /\ \A o \in 1..Len(outq) : outq[o] = fed[1]))

C1_Witness ==
    /\ state = "Terminated"
    /\ Len(inq) = 1
    /\ Len(fed[1]) >= 3
    /\ fed[1][1] # Sentinel /\ fed[1][2] # Sentinel
    /\ Len(outq) = 2
    /\ \A o \in 1..Len(outq) : outq[o] = fed[1]

C3_SentinelForwarded ==
    pc = "done"
    => /\ state = "Terminated"
       /\ IsDone(inputs)
       /\ \A o \in 1..Len(outq) : Last(outq[o]) = Sentinel

---------------------------------------------------------------------------
(* Claims about PreloadedDataset *)

\* C4: a cache built from a source with a transform T has the source's
\* length and at every index 0 <= i < len(source) yields
\* (T(source[i].sample), source[i].label).
C4_PreloadEquivalence ==
    (ret.op = "PreloadedDataset" /\ ret.exc = "None" /\ ret.transform \in Transforms)
    => /\ ObjLen(heap, ret.obj) = ObjLen(heap, ret.src)
       /\ \A i \in 0..(ObjLen(heap, ret.src) - 1) :
             LET s == Getitem(heap, ret.src, i)
                 c == Getitem(heap, ret.obj, i)
             IN  /\ s.exc = "None"
                 /\ c.exc = "None"
                 /\ c.val = <<Apply(ret.transform, s.val[1]), s.val[2]>>

C4_Witness ==
    /\ ret.op = "PreloadedDataset"
    /\ ret.exc = "None"
    /\ ret.transform \in Transforms
    /\ ObjLen(heap, ret.src) >= 2
    /\ heap[ret.src].transform # "None"
    /\ ObjLen(heap, ret.obj) = ObjLen(heap, ret.src)

\* C7 as claimed: on a cache, get(index) raises IndexError for every index
\* outside 0 <= index < length, negative ones included, returns
\* (transform(sample), label) only inside that range, and a failed get
\* leaves the cache unchanged.
C7_IndexErrorOutsideRange ==
    /\ [](ret.op = "getitem" =>
            (heap[ret.obj].kind = "preloaded" =>
               LET n == ObjLen(heap, ret.obj)
               IN  /\ (ret.index < 0 \/ ret.index >= n) => ret.exc = "IndexError"
                   /\ ret.exc = "None" =>
                        /\ 0 <= ret.index /\ ret.index < n
                        /\ ret.val = <<Apply(heap[ret.obj].transform,
                                             heap[ret.obj].data[ret.index + 1][1]),
                                       heap[ret.obj].data[ret.index + 1][2]>>))
    /\ [][ret'.op = "getitem" => heap' = heap]_vars

\* C7 as amended: get(index) raises IndexError exactly when index >= length
\* or index < -length; whatever it returns is (transform(sample), label) of
\* the pair at index for 0 <= index < length and of the pair at
\* index + length for -length <= index < 0; a failed get leaves the cache
\* unchanged.
C7_PythonIndexing ==
    /\ [](ret.op = "getitem" =>
            (heap[ret.obj].kind = "preloaded" =>
               LET n == ObjLen(heap, ret.obj)
                   at == IF ret.index < 0 THEN ret.index + n ELSE ret.index
               IN  /\ (ret.exc = "IndexError") <=> (ret.index >= n \/ ret.index < 0 - n)
                   /\ ret.exc = "None" =>
                        /\ 0 - n <= ret.index /\ ret.index < n
                        /\ ret.val = <<Apply(heap[ret.obj].transform,
                                             heap[ret.obj].data[at + 1][1]),
                                       heap[ret.obj].data[at + 1][2]>>))
    /\ [][ret'.op = "getitem" => heap' = heap]_vars

C7_Witness ==
    /\ ret.op = "getitem"
    /\ heap[ret.obj].kind = "preloaded"
    /\ ObjLen(heap, ret.obj) >= 2
    /\ ret.index = 0 - 1
    /\ ret.exc = "None"
    /\ ret.val[1] = Apply(heap[ret.obj].transform, heap[ret.obj].data[ObjLen(heap, ret.obj)][1])

---------------------------------------------------------------------------
(* Claims about the registry *)

SplitSet(c) == LET sp == Get(c.split, <<"val">>) IN {sp[i] : i \in 1..Len(sp)}
KeySet(d) == {d[i][1] : i \in 1..Len(d)}
FirstPrepare == prepares = 0 /\ prepares' = 1
SecondPrepare == prepares = 1 /\ prepares' = 2

\* C5: with preload true, prepare() replaces every split's entry by a cache
\* built from that split's collection and its detached transform: same keys,
\* same length, and at every index the pair the original collection, with
\* its transform attached, yielded before prepare().
C5_PrepareBuildsCaches ==
    [][(FirstPrepare /\ preload) =>
         /\ ret'.exc = "None"
         /\ DictKeys(datasets') = DictKeys(datasets)
         /\ \A j \in 1..Len(datasets) :
               LET old == datasets[j][2]
                   new == datasets'[j][2]
               IN  /\ heap'[new].kind = "preloaded"
                   /\ heap'[new].transform = heap[old].transform
                   /\ heap'[old].transform = "None"
                   /\ ObjLen(heap', new) = ObjLen(heap, old)
                   /\ \A i \in 0..(ObjLen(heap, old) - 1) :
                         /\ Getitem(heap, old, i).exc = "None"
                         /\ Getitem(heap', new, i) = Getitem(heap, old, i)]_vars

C5_Witness ==
    /\ state = "Prepared"
    /\ preload
    /\ prepares = 1
    /\ ret.op = "prepare"
    /\ ret.exc = "None"
    /\ Len(datasets) = 2
    /\ \A j \in 1..Len(datasets) :
          /\ heap[datasets[j][2]].kind = "preloaded"
          /\ ObjLen(heap, datasets[j][2]) >= 1
    /\ \E j \in 1..Len(datasets) : ObjLen(heap, datasets[j][2]) >= 2

ValidBatchSize(c) ==
    IF c.batch_size = Absent THEN TRUE
    ELSE LET b == Get(c.batch_size, IntV(1)) IN IsInt(b) /\ b.int > 0

\* C6: for a valid configuration, get_datasets() has exactly one entry per
\* requested split, and get_num_batches() gives for every split the floor of
\* len(collection) / batch_size (batch_size 1 when not configured), before
\* and after prepare().
C6_OneEntryPerSplitAndFloor ==
    /\ ret.op = "get_datasets" =>
          /\ KeySet(ret.val) = SplitSet(cfg)
          /\ Cardinality(KeySet(ret.val)) = Len(ret.val)
    /\ (ret.op = "get_num_batches" /\ ValidBatchSize(cfg)) =>
          LET b == Get(cfg.batch_size, IntV(1)).int
          IN  /\ ret.exc = "None"
              /\ Len(ret.val) = Len(datasets)
              /\ \A j \in 1..Len(datasets) :
                    LET n == ObjLen(heap, datasets[j][2])
                    IN  /\ ret.val[j][1] = datasets[j][1]
                        /\ ret.val[j][2] * b <= n
                        /\ n < (ret.val[j][2] + 1) * b

C6_Witness ==
    /\ ret.op = "get_num_batches"
    /\ ret.exc = "None"
    /\ state = "Prepared"
    /\ preload
    /\ cfg.batch_size = Some(IntV(2))
    /\ Len(datasets) = 2
    /\ ObjLen(heap, datasets[1][2]) = 1 /\ ret.val[1][2] = 0
    /\ ObjLen(heap, datasets[2][2]) = 2 /\ ret.val[2][2] = 1

\* C8: a configuration whose batch_size is zero, negative or not an integer
\* fails at construction, so no stage exists with such a batch_size and
\* get_num_batches() is never computed with one.
C8_BatchSizeValidated ==
    /\ ~ValidBatchSize(cfg) => state \in {"Unbuilt", "Failed"}
    /\ ret.op = "get_num_batches" => IsInt(batch_size) /\ batch_size.int > 0

\* C9: when dataset_name is missing, construction fails with the
\* missing-name error before any I/O (no existence probe, no provider
\* instantiation or download, no weights lookup), and the stage is never
\* Created, Prepared or Running.
C9_MissingNameFailsBeforeIO ==
    cfg.dataset_name = Absent
    => /\ io = <<>>
       /\ heap = <<>>
       /\ state \in {"Unbuilt", "Failed"}
       /\ state = "Failed" => ret = [op |-> "__init__", exc |-> "ValueError"]

C9_Witness ==
    /\ cfg.dataset_name = Absent
    /\ cfg.weights = Some("W1")
    /\ cfg.split = Some(<<"train", "val">>)
    /\ state = "Failed"
    /\ ret.op = "__init__"

\* C10: a second call of prepare() succeeds and leaves every split's entry
\* with the same length and the same get(i) results as after the first call,
\* for preload true and for preload false.
C10_PrepareIdempotent ==
    [][SecondPrepare =>
         /\ ret'.exc = "None"
         /\ DictKeys(datasets') = DictKeys(datasets)
         /\ \A j \in 1..Len(datasets) :
               LET old == datasets[j][2]
                   new == datasets'[j][2]
               IN  /\ ObjLen(heap', new) = ObjLen(heap, old)
                   /\ \A i \in 0..(ObjLen(heap, old) - 1) :
                         Getitem(heap', new, i) = Getitem(heap, old, i)]_vars

---------------------------------------------------------------------------
(* Claims about the life cycle *)

LifeCycleEdges ==
    {<<"Unbuilt", "Created">>, <<"Unbuilt", "Failed">>, <<"Created", "Prepared">>,
     <<"Prepared", "Running">>, <<"Running", "Terminated">>}

---------------------------------------------------------------------------
(* Claims about the registry's stability *)

SameCollection(h1, o1, h2, o2) ==
    /\ ObjLen(h1, o1) = ObjLen(h2, o2)
    /\ \A i \in 0..(ObjLen(h1, o1) - 1) : Getitem(h1, o1, i) = Getitem(h2, o2, i)

\* C12: get_datasets() returns the registry's mapping itself, and until a
\* prepare() call nothing changes it: two calls with no prepare() between
\* them return the same mapping, whose collections have the same length and
\* the same (sample, label) at every index.
C12_GetDatasetsStable ==
    /\ [](ret.op = "get_datasets" => ret.val = datasets)
    /\ [][(state \in Built /\ prepares' = prepares) =>
            /\ datasets' = datasets
            /\ (ret.op = "get_datasets" /\ ret'.op = "get_datasets") => ret'.val = ret.val
            /\ \A j \in 1..Len(datasets) :
                  SameCollection(heap', datasets'[j][2], heap, datasets[j][2])]_vars

C12_Witness ==
    /\ ret.op = "get_datasets"
    /\ state = "Created"
    /\ Len(ret.val) = 2
    /\ \A j \in 1..Len(ret.val) : ObjLen(heap, ret.val[j][2]) >= 1

\* C13: apart from prepare(), nothing mutates the registry: on a constructed
\* stage no step of run(), no get_datasets() and no get_num_batches(), before
\* or after prepare(), changes the split -> collection mapping, a
\* collection's data or transform, batch_size or preload.
C13_RegistryFrozen ==
    [][(state \in Built /\ prepares' = prepares) =>
         /\ datasets' = datasets
         /\ heap' = heap
         /\ batch_size' = batch_size
         /\ preload' = preload]_vars

C13_Witness ==
    /\ state = "Terminated"
    /\ preload
    /\ prepares = 1
    /\ ret.op = "get_num_batches"
    /\ heap[datasets[1][2]].kind = "preloaded"
    /\ Len(outq[1]) >= 2

\* C14: with preload false, a prepare() call succeeds and is a no-op: every
\* registry entry is the same collection object with the same transform
\* attached and the same data, before and after.
C14_PrepareNoOpWithoutPreload ==
    [][(prepares' = prepares + 1 /\ ~preload) =>
         /\ ret' = [op |-> "prepare", exc |-> "None"]
         /\ datasets' = datasets
         /\ heap' = heap
         /\ \A j \in 1..Len(datasets) :
               /\ heap'[datasets'[j][2]].kind = "provider"
               /\ heap'[datasets'[j][2]].transform \in Transforms]_vars

C14_Witness ==
    /\ state = "Prepared"
    /\ ~preload
    /\ cfg.preload = Some(FALSE)
    /\ ret.op = "prepare"
    /\ Len(datasets) = 2
    /\ \A j \in 1..Len(datasets) :
          /\ heap[datasets[j][2]].kind = "provider"
          /\ heap[datasets[j][2]].transform = "W1.transforms"
          /\ ObjLen(heap, datasets[j][2]) >= 1

\* C15: no operation of the stage changes a provider's collection: its
\* length and what its get(i) returns are the same before and after every
\* step, prepare() included.
C15_CollectionsImmutable ==
    [][\A o \in 1..Len(heap) :
          heap[o].kind = "provider" => SameCollection(heap', o, heap, o)]_vars

---------------------------------------------------------------------------
(* Claims about observability and forwarding *)

IsPrefix(a, b) == Len(a) <= Len(b) /\ \A i \in 1..Len(a) : a[i] = b[i]
IsOp(e) == e.ev \in {"get", "push"}
Ops(t) == SelectSeq(t, IsOp)
MinFed == CHOOSE n \in 0..MaxFeed :
            /\ \A q \in 1..Len(fed) : n <= Len(fed[q])
            /\ \E q \in 1..Len(fed) : n = Len(fed[q])
SentinelAt(j) == \E q \in 1..Len(fed) : fed[q][j] = Sentinel

\* The queue operations the records fed so far call for, whatever the
\* logging: per iteration one fetch and one push of the first queue's record,
\* up to and including the first iteration that meets a sentinel.
RECURSIVE OpsFrom(_)
OpsFrom(j) ==
    IF j > MinFed THEN <<>>
    ELSE <<Ev("get", NoRec), Ev("push", fed[1][j])>>
         \o (IF SentinelAt(j) THEN <<>> ELSE OpsFrom(j + 1))

\* C16: logging does not alter control flow: the queue reads and pushes of
\* run() are those the fed records call for, with logging enabled or
\* disabled, and run() is Terminated exactly when the iteration that met the
\* sentinel has been done; with logging enabled each push of a data record
\* has a start event right before it and an end event right after it, and
\* with logging disabled no such event is emitted.
C16_LoggingTransparent ==
    /\ IsPrefix(Ops(trace), OpsFrom(1))
    /\ state = "Terminated" <=> (Ops(trace) # <<>> /\ Ops(trace) = OpsFrom(1)
                                 /\ SentinelAt(Len(outq[1])))
    /\ disable_logs => \A i \in 1..Len(trace) : IsOp(trace[i])
    /\ ~disable_logs =>
          \A i \in 1..Len(trace) :
             (trace[i].ev = "push" /\ trace[i].rec # Sentinel) =>
                /\ i > 1 /\ trace[i - 1].ev = "start"
                /\ i < Len(trace) /\ trace[i + 1].ev = "end"

\* C17: every non-terminating iteration of run() takes exactly one record
\* from each input queue and pushes exactly one record to every output queue,
\* the unmodified record of the first input queue: between iterations, after
\* k iterations each input queue has given k records and each output queue
\* holds the first k records of the first input queue, in order; in the
\* middle of an iteration each input queue has given one record more.
C17_OnePerQueueFirstForwarded ==
    (state = "Running" /\ pc \in {"fetch", "forward"})
    => \A o \in 1..Len(outq) :
          LET k == Len(outq[o])
          IN  /\ \A q \in 1..Len(inq) :
                    Consumed(q) = IF pc = "fetch" THEN k ELSE k + 1
              /\ outq[o] = SubSeq(fed[1], 1, k)
              /\ \A j \in 1..k : \A q \in 1..Len(fed) : fed[q][j] # Sentinel
              /\ pc = "forward" =>
                    \A q \in 1..Len(inq) : inputs[q] = fed[q][k + 1]

C17_Witness ==
    /\ state = "Running"
    /\ pc = "fetch"
    /\ Len(inq) = 2
    /\ Len(outq) = 2
    /\ Len(outq[2]) >= 2
    /\ outq[2] = SubSeq(fed[1], 1, 2)
    /\ Consumed(2) = 2

---------------------------------------------------------------------------
(* Claims about the cache as a snapshot *)

\* C18: construction reads the source at 0, 1, .., len(source)-1, each once
\* and in that order, and stores what it read without applying the
\* transform, so the cache has the source's length; afterwards no get, no
\* other construction and no change of the source changes the stored pairs
\* (or the length); each get applies the transform once to the stored sample
\* and stores nothing.
C18_Snapshot ==
    /\ []((ret.op = "PreloadedDataset" /\ ret.exc = "None") =>
            LET n == ObjLen(heap, ret.src)
            IN  /\ ret.reads = [i \in 1..n |-> i - 1]
                /\ ObjLen(heap, ret.obj) = n
                /\ heap[ret.obj].transform = ret.transform
                /\ \A i \in 0..(n - 1) :
                      heap[ret.obj].data[i + 1] = Getitem(heap, ret.src, i).val)
    /\ []((ret.op = "getitem" /\ ret.exc = "None") =>
            (heap[ret.obj].kind = "preloaded" =>
               LET n == ObjLen(heap, ret.obj)
                   p == heap[ret.obj].data[(IF ret.index < 0 THEN ret.index + n
                                            ELSE ret.index) + 1]
               IN  ret.val = <<Apply(heap[ret.obj].transform, p[1]), p[2]>>))
    /\ [][/\ \A o \in 1..Len(heap) :
                heap[o].kind = "preloaded" => heap'[o].data = heap[o].data
          /\ ret'.op = "getitem" => heap' = heap]_vars

C18_Witness ==
    /\ ret.op = "getitem"
    /\ ret.exc = "None"
    /\ heap[ret.obj].kind = "preloaded"
    /\ ObjLen(heap, ret.obj) >= 2
    /\ heap[1].transform = "None"
    /\ heap[ret.obj].data[1][1][1] \in Transforms

---------------------------------------------------------------------------
(* Claims about termination *)

SentinelFetched ==
    \E q \in 1..Len(fed) : \E j \in 1..Consumed(q) : fed[q][j] = Sentinel

\* C19: run() stops only on the sentinel: a Terminated stage has fetched a
\* sentinel, in its last fetch, so a stage whose queues deliver none is never
\* Terminated; and, the loop's steps being taken when they can be, a stage
\* whose fetch returned a sentinel becomes Terminated.
C19_OnlySentinelStops ==
    /\ [](state = "Terminated" => SentinelFetched /\ IsDone(inputs))
    /\ [](~SentinelFetched => state # "Terminated" /\ pc # "done")
    /\ ((state = "Running" /\ pc = "forward" /\ IsDone(inputs)) ~> state = "Terminated")

C19_Witness ==
    /\ state = "Terminated"
    /\ Len(inq) = 2
    /\ inputs[2] = Sentinel
    /\ inputs[1] # Sentinel
    /\ Len(outq[1]) >= 2
    /\ ~SentinelFed(1)

===========================================================================
